---- MODULE Spec2Model ----
(***************************************************************************)
(* Model of the flood-report merge job (scripts/grist-to-geojson.js and    *)
(* its earlier revision with deletion detection wired in).  One run        *)
(* fetches six sources, normalizes the raw records, filters resolved       *)
(* reports older than three days, archives the kept reports per year,      *)
(* detects deletions against last_run.json and writes signalements.geojson *)
(* and metadata.json.                                                      *)
(***************************************************************************)
EXTENDS Integers, Sequences, FiniteSets, TLC

\* ------------------------------------------------------------------------
\* Bounds of the model
\* ------------------------------------------------------------------------
MaxRuns == 1
MaxSeqRuns == 3
MaxId == 1
MaxBatch == 2
MaxSeqBatch == 1
MaxLiveBatch == 2
MaxLivePerSource == 1
MaxFaultRuns == 2
MaxMembers == 2
MaxMonitorRuns == 2

\* ------------------------------------------------------------------------
\* Sources and revisions
\* ------------------------------------------------------------------------
Grist == "Saisie Grist"
CD44 == "CD44"
Rennes == "Rennes Metropole"
CD35 == "CD35 Inondations"
CD56 == "CD56"
DIRO == "DIRO"

SourceOrder == <<Grist, CD44, Rennes, CD35, CD56, DIRO>>
Sources == {SourceOrder[i] : i \in 1..Len(SourceOrder)}
Concurrent == {Grist, CD44, Rennes, CD35, CD56}

Revisions == {"scripts", "part_002"}

Null == -1

\* ------------------------------------------------------------------------
\* Dates.  A display string "DD/MM/YYYY à HHhMM" is the record Fr(y, m):
\* calendar year y and minute m within that year.  NoDate is the empty
\* string, BadDate a non-empty string that is not in the display format.
\* A raw date is what a source delivers before formatDate.
\* ------------------------------------------------------------------------
MinutesPerYear == 365 * 24 * 60
NoDate == [k |-> "none", y |-> 0, m |-> 0]
BadDate == [k |-> "bad", y |-> 0, m |-> 0]
Fr(y, m) == [k |-> "fr", y |-> y, m |-> m]
Iso(y, m) == [k |-> "iso", y |-> y, m |-> m]
InvalidRaw == [k |-> "invalid", y |-> 0, m |-> 0]
NoRaw == [k |-> "absent", y |-> 0, m |-> 0]

\* seconds since the start of 1970 of the wall-clock instant y/m/s
Instant(y, m, s) == ((y - 1970) * MinutesPerYear + m) * 60 + s

formatDate(v) ==
    IF v.k = "iso" THEN Fr(v.y, v.m) ELSE NoDate

ThreeDaysSeconds == 3 * 24 * 60 * 60

\* isOlderThan3Days that answers true for a string its pattern does not
\* match
isOlderThan3DaysFailClosed(dateString, now) ==
    IF dateString.k = "none" THEN FALSE
    ELSE IF dateString.k # "fr" THEN TRUE
    ELSE Instant(now.y, now.m, now.s) - Instant(dateString.y, dateString.m, 0)
            > ThreeDaysSeconds

\* isOlderThan3Days with ">= 3" in place of "> 3"
isOlderThan3DaysInclusive(dateString, now) ==
    IF dateString.k = "none" THEN FALSE
    ELSE IF dateString.k # "fr" THEN FALSE
    ELSE Instant(now.y, now.m, now.s) - Instant(dateString.y, dateString.m, 0)
            >= ThreeDaysSeconds

isOlderThan3Days(dateString, now) ==
    IF dateString.k = "none" THEN FALSE
    ELSE IF dateString.k # "fr" THEN FALSE
    ELSE Instant(now.y, now.m, now.s) - Instant(dateString.y, dateString.m, 0)
            > ThreeDaysSeconds

\* shouldKeepFeature that applies the age test of date_fin before looking
\* at statut_actif
shouldKeepFeatureAgeFirst(feature, now) ==
    IF feature.date_fin.k # "none" /\ isOlderThan3Days(feature.date_fin, now)
    THEN [keep |-> FALSE, filteredResolved |-> feature.statut_resolu]
    ELSE [keep |-> TRUE, filteredResolved |-> FALSE]

shouldKeepFeature(feature, now) ==
    IF feature.statut_actif
    THEN [keep |-> TRUE, filteredResolved |-> FALSE]
    ELSE IF feature.statut_resolu
    THEN IF feature.date_fin.k # "none" /\ isOlderThan3Days(feature.date_fin, now)
         THEN [keep |-> FALSE, filteredResolved |-> TRUE]
         ELSE [keep |-> TRUE, filteredResolved |-> FALSE]
    ELSE [keep |-> TRUE, filteredResolved |-> FALSE]

\* getYearFromDateDebut without its tests of an empty or unmatched string:
\* the year field whatever the string is
getYearUnguarded(dateString) == dateString.y

\* getYearFromDateDebut with (\d{2}) in place of (\d{4}): the first two
\* digits of the year
getYearFirstDigits(dateString) ==
    IF dateString.k = "fr" /\ dateString.y # 0 THEN dateString.y \div 100 ELSE Null

getYearFromDateDebut(dateString) ==
    IF dateString.k = "fr" /\ dateString.y # 0 THEN dateString.y ELSE Null

\* ------------------------------------------------------------------------
\* Raw records and their normalization.  A raw record carries the fields
\* the converters read: id (0 = absent or falsy), etat (the status-like
\* field of the source), debut/fin (raw dates), geo (usable geometry
\* present) and v (the content of geometry, comment and closure type).
\* Each converter returns a sequence of zero or one feature; uid is the
\* value generateUniqueId() would return.
\* ------------------------------------------------------------------------
Raw(id, etat, debut, fin, geo, v) ==
    [v |-> v, id |-> id, etat |-> etat, debut |-> debut, fin |-> fin, geo |-> geo]

IdOrNull(x) == IF x = 0 THEN Null ELSE x

Feature(uid, idSource, source, statut, actif, resolu, coupure, comm, geom, debut, fin) ==
    [date_fin |-> fin, statut_resolu |-> resolu, statut_actif |-> actif,
     id |-> uid, source |-> source, statut |-> statut, id_source |-> idSource,
     type_coupure |-> coupure, commentaire |-> comm, geometry |-> geom,
     date_debut |-> debut, date_suppression |-> NoDate]

gristToFeature(record, uid) ==
    IF ~record.geo THEN << >>
    ELSE LET statut == IF record.etat = "" THEN "Actif" ELSE record.etat
         IN << Feature(uid, IdOrNull(record.id), Grist, statut,
                       statut = "Actif", statut = "Resolu",
                       IF record.v = 0 THEN "Totale" ELSE "Partielle",
                       record.v, record.v,
                       formatDate(record.debut), formatDate(record.fin)) >>

parseCD44DateFin(ligne4) ==
    IF ligne4.k = "du_au" THEN Fr(ligne4.y, ligne4.m - (ligne4.m % (24 * 60)))
    ELSE IF ligne4.k = "fin" THEN Fr(ligne4.y, ligne4.m)
    ELSE NoDate

cd44ToFeature(item, uid) ==
    IF item.etat # "Inondation" /\ item.etat # "inondation" THEN << >>
    ELSE << Feature(uid, Null, CD44, "Actif", TRUE, FALSE, "Totale",
                    item.v, item.v,
                    formatDate(item.debut), parseCD44DateFin(item.fin)) >>

rennesMetroToFeature(feature, uid) ==
    IF ~feature.geo THEN << >>
    ELSE LET isResolu == feature.etat = "termine"
             isActif == feature.etat = "en cours"
             statut == IF isResolu THEN "Resolu"
                       ELSE IF isActif THEN "Actif" ELSE feature.etat
         IN << Feature(uid, IdOrNull(feature.id), Rennes, statut, isActif, isResolu,
                       "Totale", feature.v, feature.v,
                       formatDate(feature.debut), formatDate(feature.fin)) >>

cd35InondationsToFeature(feature, uid) ==
    IF ~feature.geo THEN << >>
    ELSE << Feature(uid, IdOrNull(feature.id), CD35, "Actif", TRUE, FALSE,
                    "Totale", feature.v, feature.v, NoDate, NoDate) >>

cd56ToFeature(feature, uid) ==
    IF ~feature.geo THEN << >>
    ELSE IF feature.etat \notin {"COUPEE", "INONDEE PARTIELLE"} THEN << >>
    ELSE << Feature(uid, IdOrNull(feature.id), CD56, "Actif", TRUE, FALSE,
                    IF feature.etat = "INONDEE PARTIELLE" THEN "Partielle" ELSE "Totale",
                    IF feature.etat = "INONDEE PARTIELLE" THEN 1 ELSE 0,
                    feature.v,
                    formatDate(feature.debut), formatDate(feature.fin)) >>

diroToFeature(feature, uid) ==
    IF ~feature.geo THEN << >>
    ELSE LET isActif == feature.etat = "true"
             isResolu == feature.etat = "false"
         IN << Feature(uid, IdOrNull(feature.id), DIRO,
                       IF isActif THEN "Actif" ELSE "Resolu", isActif, isResolu,
                       "Totale", feature.v, feature.v,
                       formatDate(feature.debut), formatDate(feature.fin)) >>

ToFeature(source, raw, uid) ==
    CASE source = Grist -> gristToFeature(raw, uid)
      [] source = CD44 -> cd44ToFeature(raw, uid)
      [] source = Rennes -> rennesMetroToFeature(raw, uid)
      [] source = CD35 -> cd35InondationsToFeature(raw, uid)
      [] source = CD56 -> cd56ToFeature(raw, uid)
      [] OTHER -> diroToFeature(raw, uid)

\* ------------------------------------------------------------------------
\* Annual archive.  The archive is a function from the years that have a
\* file archives/signalements_<year>.geojson to the sequence of its
\* features; last_run.json is the record lastRun.
\* ------------------------------------------------------------------------
loadArchive(a, year) ==
    IF year \in DOMAIN a THEN a[year] ELSE << >>

saveArchive(a, year, feats) ==
    [yy \in (DOMAIN a) \cup {year} |-> IF yy = year THEN feats ELSE a[yy]]

NotFound == -1

RECURSIVE FirstMatch(_, _, _, _)
FirstMatch(feats, idSource, source, i) ==
    IF i > Len(feats) THEN NotFound
    ELSE IF feats[i].id_source = idSource /\ feats[i].source = source THEN i
    ELSE FirstMatch(feats, idSource, source, i + 1)

findInArchive(feats, idSource, source) ==
    FirstMatch(feats, idSource, source, 1)

\* sources that addOrUpdateInArchive and detectDeletedSignalements skip
Ignored(revision) ==
    IF revision = "part_002" THEN {CD35, DIRO} ELSE {}

\* addOrUpdateInArchive without the date_debut comparison: a feature whose
\* id_source is already archived replaces the archived entry
addOrUpdateOverwriting(a, feature, revision) ==
    LET year == getYearFromDateDebut(feature.date_debut) IN
    IF feature.source \in Ignored(revision) THEN a
    ELSE IF year = Null THEN a
    ELSE
      LET feats == loadArchive(a, year)
          existingIndex == findInArchive(feats, feature.id_source, feature.source)
          archiveFeature == [feature EXCEPT !.date_suppression = NoDate]
      IN
      IF existingIndex >= 1
      THEN saveArchive(a, year, [feats EXCEPT ![existingIndex] = archiveFeature])
      ELSE saveArchive(a, year, Append(feats, archiveFeature))

\* addOrUpdateInArchive whose refresh of geometry, type_coupure and
\* commentaire sits inside the test of the change to 'Résolu'
addOrUpdateRefreshingOnChange(a, feature, revision) ==
    LET year == getYearFromDateDebut(feature.date_debut) IN
    IF feature.source \in Ignored(revision) THEN a
    ELSE IF year = Null THEN a
    ELSE
      LET feats == loadArchive(a, year)
          existingIndex == findInArchive(feats, feature.id_source, feature.source)
          archiveFeature == [feature EXCEPT !.date_suppression = NoDate]
      IN
      IF existingIndex >= 1
      THEN LET existing == feats[existingIndex] IN
           IF existing.date_debut # feature.date_debut
           THEN saveArchive(a, year, Append(feats, archiveFeature))
           ELSE LET toResolu == ~existing.statut_resolu /\ feature.statut_resolu
                                /\ feature.date_fin.k # "none"
                    updated ==
                      [existing EXCEPT
                         !.statut = IF toResolu THEN "Resolu" ELSE @,
                         !.statut_resolu = IF toResolu THEN TRUE ELSE @,
                         !.date_fin = IF toResolu THEN feature.date_fin ELSE @,
                         !.geometry = IF toResolu THEN feature.geometry ELSE @,
                         !.type_coupure = IF toResolu THEN feature.type_coupure ELSE @,
                         !.commentaire = IF toResolu THEN feature.commentaire ELSE @]
                IN saveArchive(a, year, [feats EXCEPT ![existingIndex] = updated])
      ELSE saveArchive(a, year, Append(feats, archiveFeature))

addOrUpdateInArchive(a, feature, revision) ==
    LET year == getYearFromDateDebut(feature.date_debut) IN
    IF feature.source \in Ignored(revision) THEN a
    ELSE IF year = Null THEN a
    ELSE
      LET feats == loadArchive(a, year)
          existingIndex == findInArchive(feats, feature.id_source, feature.source)
          archiveFeature == [feature EXCEPT !.date_suppression = NoDate]
      IN
      IF existingIndex >= 1
      THEN LET existing == feats[existingIndex] IN
           IF existing.date_debut # feature.date_debut
           THEN saveArchive(a, year, Append(feats, archiveFeature))
           ELSE LET toResolu == ~existing.statut_resolu /\ feature.statut_resolu
                                /\ feature.date_fin.k # "none"
                    updated ==
                      [existing EXCEPT
                         !.statut = IF toResolu THEN "Resolu" ELSE @,
                         !.statut_resolu = IF toResolu THEN TRUE ELSE @,
                         !.date_fin = IF toResolu THEN feature.date_fin ELSE @,
                         !.geometry = feature.geometry,
                         !.type_coupure = feature.type_coupure,
                         !.commentaire = feature.commentaire]
                IN saveArchive(a, year, [feats EXCEPT ![existingIndex] = updated])
      ELSE saveArchive(a, year, Append(feats, archiveFeature))

\* the year whose file addOrUpdateInArchive writes, Null when it returns early
ArchiveTarget(feature, revision) ==
    IF feature.source \in Ignored(revision) THEN Null
    ELSE getYearFromDateDebut(feature.date_debut)

\* currentActifs of detectDeletedSignalements: per source, the id_source of
\* the active features that have one, in feature order
RECURSIVE ActiveIds(_, _, _)
ActiveIds(currentFeatures, source, i) ==
    IF i > Len(currentFeatures) THEN << >>
    ELSE LET f == currentFeatures[i] IN
         IF f.source = source /\ f.statut_actif /\ f.id_source # Null
         THEN <<f.id_source>> \o ActiveIds(currentFeatures, source, i + 1)
         ELSE ActiveIds(currentFeatures, source, i + 1)

currentActifs(currentFeatures, revision) ==
    [source \in Sources |->
        IF source \in Ignored(revision) THEN << >>
        ELSE ActiveIds(currentFeatures, source, 1)]

InSeq(x, sq) == \E i \in 1..Len(sq) : sq[i] = x

\* MarkDeleted with saveArchive after the test instead of inside it: each
\* year looked at is saved, whether or not an entry was marked
MarkDeletedSavingAnyway(a, source, idSource, now) ==
    LET stamp == Fr(now.y, now.m)
        Try(b, year) ==
            LET feats == loadArchive(b, year)
                index == findInArchive(feats, idSource, source)
            IN IF index >= 1 /\ feats[index].statut_actif
                  /\ feats[index].date_suppression.k = "none"
               THEN [hit |-> TRUE,
                     arch |-> saveArchive(b, year,
                        [feats EXCEPT ![index] =
                           [@ EXCEPT !.statut = "Supprime",
                                     !.statut_actif = FALSE,
                                     !.date_suppression = stamp]])]
               ELSE [hit |-> FALSE, arch |-> saveArchive(b, year, feats)]
        first == Try(a, now.y)
    IN IF first.hit THEN first ELSE Try(a, now.y - 1)

\* MarkDeleted without the "if (found) return": the previous year is looked
\* at even when an entry of the current year has been marked
MarkDeletedBothYears(a, source, idSource, now) ==
    LET stamp == Fr(now.y, now.m)
        Try(b, year) ==
            LET feats == loadArchive(b, year)
                index == findInArchive(feats, idSource, source)
            IN IF index >= 1 /\ feats[index].statut_actif
                  /\ feats[index].date_suppression.k = "none"
               THEN [hit |-> TRUE,
                     arch |-> saveArchive(b, year,
                        [feats EXCEPT ![index] =
                           [@ EXCEPT !.statut = "Supprime",
                                     !.statut_actif = FALSE,
                                     !.date_suppression = stamp]])]
               ELSE [hit |-> FALSE, arch |-> b]
        first == Try(a, now.y)
    IN Try(first.arch, now.y - 1)

\* one vanished (source, idSource): look in the current year, then in the
\* previous one, and mark the first match when it is still active
MarkDeleted(a, source, idSource, now) ==
    LET stamp == Fr(now.y, now.m)
        Try(b, year) ==
            LET feats == loadArchive(b, year)
                index == findInArchive(feats, idSource, source)
            IN IF index >= 1 /\ feats[index].statut_actif
                  /\ feats[index].date_suppression.k = "none"
               THEN [hit |-> TRUE,
                     arch |-> saveArchive(b, year,
                        [feats EXCEPT ![index] =
                           [@ EXCEPT !.statut = "Supprime",
                                     !.statut_actif = FALSE,
                                     !.date_suppression = stamp]])]
               ELSE [hit |-> FALSE, arch |-> b]
        first == Try(a, now.y)
    IN IF first.hit THEN first ELSE Try(a, now.y - 1)

RECURSIVE DetectIds(_, _, _, _, _, _)
DetectIds(a, source, previousIds, currentIds, now, i) ==
    IF i > Len(previousIds) THEN a
    ELSE IF InSeq(previousIds[i], currentIds)
    THEN DetectIds(a, source, previousIds, currentIds, now, i + 1)
    ELSE DetectIds(MarkDeleted(a, source, previousIds[i], now).arch,
                   source, previousIds, currentIds, now, i + 1)

RECURSIVE DetectSources(_, _, _, _, _)
DetectSources(a, previous, current, now, k) ==
    IF k > Len(SourceOrder) THEN a
    ELSE LET source == SourceOrder[k] IN
         DetectSources(DetectIds(a, source, previous[source], current[source], now, 1),
                       previous, current, now, k + 1)

\* detectDeletedSignalements without the test of lastRun.date
detectDeletedAlways(a, lr, currentFeatures, now, revision) ==
    LET cur == currentActifs(currentFeatures, revision)
        saved == [date |-> Instant(now.y, now.m, now.s), actifs |-> cur]
    IN [arch |-> DetectSources(a, lr.actifs, cur, now, 1), lastRun |-> saved]

\* detectDeletedSignalements: the archive and last_run.json it leaves
detectDeletedSignalements(a, lr, currentFeatures, now, revision) ==
    LET cur == currentActifs(currentFeatures, revision)
        saved == [date |-> Instant(now.y, now.m, now.s), actifs |-> cur]
    IN IF lr.date = Null
       THEN [arch |-> a, lastRun |-> saved]
       ELSE [arch |-> DetectSources(a, lr.actifs, cur, now, 1), lastRun |-> saved]

\* ------------------------------------------------------------------------
\* Monitoring of the sources (fluxMonitor, monitorFetch, flux_monitoring)
\* ------------------------------------------------------------------------
NoStatus == [status |-> "null", records |-> 0, lastSuccess |-> Null]

\* flux_status.json as loadPreviousFluxStatus reads it.  The only writer of
\* that file is generateFluxStatus, which nothing calls (the summary of a
\* run goes into metadata.json), so the file never exists and the result
\* is null.
loadPreviousFluxStatus == Null

\* monitorFetch(sourceName, fetchFunction): the status record it stores for
\* a fetch that returned data (a list of n records) or threw, at the local
\* time clock, previousStatus being what loadPreviousFluxStatus returns
monitorFetch(threw, n, clock, previousStatus, sourceName) ==
    IF threw
    THEN [status |-> "ERROR", records |-> 0,
          lastSuccess |-> IF previousStatus # Null
                          THEN previousStatus.sources[sourceName].lastSuccess
                          ELSE Null]
    ELSE IF n = 0 THEN [status |-> "EMPTY", records |-> 0, lastSuccess |-> Null]
    ELSE [status |-> "OK", records |-> n,
          lastSuccess |-> Instant(clock.y, clock.m, clock.s)]

CountStatus(fm, st) == Cardinality({src \in Sources : fm[src].status = st})

\* summary and globalStatus of metadata.flux_monitoring / generateFluxStatus
fluxSummary(fm) ==
    [total |-> Len(SourceOrder), ok |-> CountStatus(fm, "OK"),
     empty |-> CountStatus(fm, "EMPTY"), error |-> CountStatus(fm, "ERROR")]

\* globalStatus that looks at the EMPTY sources before the ERROR ones
globalStatusEmptyFirst(fm) ==
    LET summary == fluxSummary(fm) IN
    IF summary.empty > 0 THEN "DEGRADED"
    ELSE IF summary.error > 0 THEN "CRITICAL"
    ELSE "OK"

globalStatus(fm) ==
    LET summary == fluxSummary(fm) IN
    IF summary.error > 0 THEN "CRITICAL"
    ELSE IF summary.empty > 0 THEN "DEGRADED"
    ELSE "OK"

\* ------------------------------------------------------------------------
\* Inputs of a run: the clock and what each source can deliver
\* ------------------------------------------------------------------------
BaseYear == 2025
Day(n) == n * 24 * 60
RunMinute0 == Day(70)
RunCadence == 30
RunYears == {BaseYear, BaseYear + 1}

Debut1 == Iso(BaseYear, Day(50))
Debut2 == Iso(BaseYear, Day(60))
DebutPrev == Iso(BaseYear - 1, Day(300))

\* the raw date that lies mins minutes before the minute of now
RawAgo(now, mins) ==
    IF now.m >= mins THEN Iso(now.y, now.m - mins)
    ELSE Iso(now.y - 1, now.m - mins + MinutesPerYear)

Ids == 1..MaxId

\* Core records: the ones whose history over several runs matters.
GristCore(now) ==
    UNION {{ Raw(i, "Actif", Debut1, NoRaw, TRUE, 0),
             Raw(i, "", Debut1, NoRaw, TRUE, 1),
             Raw(i, "Actif", Debut2, NoRaw, TRUE, 0),
             Raw(i, "Actif", DebutPrev, NoRaw, TRUE, 0),
             Raw(i, "Resolu", Debut1, RawAgo(now, Day(3)), TRUE, 0),
             Raw(i, "Resolu", Debut1, RawAgo(now, Day(3) + 1), TRUE, 0) } : i \in Ids}

GristExtra(now) ==
    UNION {{ Raw(i, "Resolu", Debut1, InvalidRaw, TRUE, 0),
             Raw(i, "Supprime", Debut1, NoRaw, TRUE, 0),
             Raw(i, "Actif", Debut1, NoRaw, FALSE, 0) } : i \in Ids}
    \cup { Raw(0, "Actif", Debut1, NoRaw, TRUE, 0) }

CD44Core(now) ==
    { Raw(0, "Inondation", Debut1, NoRaw, TRUE, 0),
      Raw(0, "Inondation", Debut2, [k |-> "du_au", y |-> now.y, m |-> now.m], TRUE, 0) }

CD44Extra(now) ==
    { Raw(0, "Travaux", Debut1, NoRaw, TRUE, 0) }

RennesCore(now) ==
    UNION {{ Raw(i, "en cours", Debut1, NoRaw, TRUE, 0),
             Raw(i, "termine", Debut1, RawAgo(now, Day(3)), TRUE, 0) } : i \in Ids}

RennesExtra(now) ==
    { Raw(i, "prevu", Debut1, NoRaw, TRUE, 0) : i \in Ids }

CD35Core(now) ==
    { Raw(i, "", NoRaw, NoRaw, TRUE, 0) : i \in Ids }

CD56Core(now) ==
    { Raw(i, "COUPEE", Debut1, NoRaw, TRUE, 0) : i \in Ids }

CD56Extra(now) ==
    UNION {{ Raw(i, "INONDEE PARTIELLE", Debut1, NoRaw, TRUE, 0),
             Raw(i, "NORMALE", Debut1, NoRaw, TRUE, 0) } : i \in Ids}

\* content of data/inondations-diro.geojson
DiroCore(now) ==
    { Raw(i, "true", Debut1, NoRaw, TRUE, 0) : i \in Ids }

DiroExtra(now) ==
    { Raw(i, "false", Debut1, RawAgo(now, Day(1)), TRUE, 0) : i \in Ids }

CoreUniverse(source, now) ==
    CASE source = Grist -> GristCore(now)
      [] source = CD44 -> CD44Core(now)
      [] source = Rennes -> RennesCore(now)
      [] source = CD35 -> CD35Core(now)
      [] source = CD56 -> CD56Core(now)
      [] OTHER -> DiroCore(now)

RawUniverse(source, now) ==
    CASE source = Grist -> GristCore(now) \cup GristExtra(now)
      [] source = CD44 -> CD44Core(now) \cup CD44Extra(now)
      [] source = Rennes -> RennesCore(now) \cup RennesExtra(now)
      [] source = CD35 -> CD35Core(now)
      [] source = CD56 -> CD56Core(now) \cup CD56Extra(now)
      [] OTHER -> DiroCore(now) \cup DiroExtra(now)

SeqsUpTo(S, n) == UNION {[1..k -> S] : k \in 0..n}

\* fetchDiroData keeps only the features with is_active === true
fetchDiroData(file) == SelectSeq(file, LAMBDA r : r.etat = "true")

\* the sources whose fetch function can reject instead of returning []:
\* fetchGristData returns its Promise without awaiting it, so a synchronous
\* throw of https.get inside the executor escapes the try/catch
CanThrow == {Grist}

\* ------------------------------------------------------------------------
\* State
\* ------------------------------------------------------------------------
VARIABLES
    revision,        \* which mergeSources runs: "scripts" or "part_002"
    runs,            \* number of runs started so far
    now,             \* wall clock of the current run
    pc,              \* position of the run in mergeSources
    outcome,         \* per source: how its fetch function ended
    fetched,         \* per source: the records mergeSources received
    fluxMonitor,     \* per source: status record stored by monitorFetch
    uniqueIdCounter, \* next value of generateUniqueId()
    normalized,      \* every feature the converters produced, in order
    features,        \* the features kept for publication
    stats,           \* counters of mergeSources
    ai,              \* index of the next feature to archive
    archive,         \* archives/signalements_<year>.geojson
    lastRun,         \* archives/last_run.json
    geojson,         \* signalements.geojson
    metadata,        \* metadata.json
    writes,          \* files written by the current run, in order
    probe,           \* input of the lifecycle filter applied on its own
    verdict,         \* its result
    attempt,         \* fetchCD35InondationsData (part_002): attempts made
    retryWait,       \* it is in the setTimeout between two attempts
    elapsed,         \* seconds since it was called
    tryOutcome,      \* how its latest attempt ended
    members,         \* the members of the latest response it parsed
    cd35Returned,    \* << >> while it runs, then << array it returned >>
    held,            \* per overlapping run: << >>, or << feature, features read >>
    upserted         \* per overlapping run: the features it has saved, in order

tryVars == <<attempt, retryWait, elapsed, tryOutcome, members, cd35Returned>>

overlapVars == <<held, upserted>>

vars == <<revision, runs, now, pc, outcome, fetched, fluxMonitor, uniqueIdCounter,
          normalized, features, stats, ai, archive, lastRun, geojson, metadata,
          writes, probe, verdict, tryVars, overlapVars>>

NoTry ==
    /\ attempt = 0
    /\ retryWait = FALSE
    /\ elapsed = 0
    /\ tryOutcome = "none"
    /\ members = << >>
    /\ cd35Returned = << >>

\* the runs that can overlap: two schedules started over the same checkout
MaxOverlap == 2
Procs == 1..MaxOverlap

NoOverlap ==
    /\ held = [p \in Procs |-> << >>]
    /\ upserted = [p \in Procs |-> << >>]

runVars == <<revision, runs, now, pc, outcome, fetched, fluxMonitor, uniqueIdCounter,
             normalized, features, stats, ai, archive, lastRun, geojson, metadata,
             writes>>

NoStats == [recupere |-> [src \in Sources |-> 0], garde |-> [src \in Sources |-> 0],
            resolus_filtres |-> 0, totalBrut |-> 0, totalGarde |-> 0, totalFiltre |-> 0]

NoFile == [run |-> 0]

NoProbe == [now |-> [y |-> BaseYear, m |-> RunMinute0, s |-> 0],
            feature |-> Feature(0, Null, Grist, "Actif", TRUE, FALSE, "Totale", 0, 0,
                                NoDate, NoDate)]

NoVerdict == [keep |-> FALSE, filteredResolved |-> FALSE, applied |-> FALSE]

\* the state before the first run: no archive, no last_run.json, no output
InitRun ==
    /\ revision \in Revisions
    /\ runs = 0
    /\ now = [y |-> BaseYear, m |-> RunMinute0, s |-> 0]
    /\ pc = "idle"
    /\ outcome = [src \in Sources |-> "pending"]
    /\ fetched = [src \in Sources |-> << >>]
    /\ fluxMonitor = [src \in Sources |-> NoStatus]
    /\ uniqueIdCounter = 1
    /\ normalized = << >>
    /\ features = << >>
    /\ stats = NoStats
    /\ ai = 1
    /\ archive = << >>
    /\ lastRun = [date |-> Null, actifs |-> [src \in Sources |-> << >>]]
    /\ geojson = NoFile
    /\ metadata = NoFile
    /\ writes = << >>

Init ==
    /\ InitRun
    /\ probe = NoProbe
    /\ verdict = NoVerdict
    /\ NoTry
    /\ NoOverlap

\* ------------------------------------------------------------------------
\* A run of mergeSources
\* ------------------------------------------------------------------------
\* The script is started by the scheduler: module-level state is fresh.
StartRunUpTo(cap) ==
    /\ pc \in {"idle", "done", "failed"}
    /\ runs < cap
    /\ runs' = runs + 1
    /\ \E dy \in 0..1 :
          /\ now.y + dy \in RunYears
          /\ runs = 0 => dy = 0
          /\ now' = [y |-> now.y + dy, m |-> now.m + RunCadence, s |-> 0]
    /\ pc' = "fetching"
    /\ outcome' = [src \in Sources |-> "pending"]
    /\ fetched' = [src \in Sources |-> << >>]
    /\ fluxMonitor' = [src \in Sources |-> NoStatus]
    /\ uniqueIdCounter' = 1
    /\ normalized' = << >>
    /\ features' = << >>
    /\ stats' = NoStats
    /\ ai' = 1
    /\ writes' = << >>
    /\ UNCHANGED <<revision, archive, lastRun, geojson, metadata, probe, verdict, tryVars, overlapVars>>

Received == Len(fetched[Grist]) + Len(fetched[CD44]) + Len(fetched[Rennes])
            + Len(fetched[CD35]) + Len(fetched[CD56]) + Len(fetched[DIRO])

\* what the fetch function of src returns when it does not reject
Delivered(src, how, data) ==
    IF how # "ok" THEN << >>
    ELSE IF src = DIRO THEN fetchDiroData(data) ELSE data

\* FetchSettles under Promise.race in place of Promise.all: the run goes on
\* as soon as one fetch has settled
FetchSettlesRace(src, how, data) ==
    /\ pc = "fetching"
    /\ outcome[src] = "pending"
    /\ src = DIRO => \A c \in Concurrent : outcome[c] # "pending"
    /\ how = "thrown" => src \in CanThrow
    /\ how # "ok" => data = << >>
    /\ Received + Len(Delivered(src, how, data)) <= MaxBatch
    /\ outcome' = [outcome EXCEPT ![src] = how]
    /\ fluxMonitor' = IF revision = "scripts"
                      THEN [fluxMonitor EXCEPT ![src] =
                              monitorFetch(how = "thrown", Len(Delivered(src, how, data)),
                                           now, loadPreviousFluxStatus, src)]
                      ELSE fluxMonitor
    /\ fetched' = [fetched EXCEPT ![src] = Delivered(src, how, data)]
    /\ pc' = IF how = "thrown" /\ revision # "scripts" THEN "failed" ELSE "converting"
    /\ UNCHANGED <<revision, runs, now, uniqueIdCounter, normalized, features, stats,
                   ai, archive, lastRun, geojson, metadata, writes, probe, verdict, tryVars, overlapVars>>

\* FetchSettles with one status object shared by the calls of monitorFetch
\* (declared outside the function): the call that settles writes it under
\* its own name, and the names of the calls settled before point to it too
FetchSettlesSharedStatus(src, how, data) ==
    /\ pc = "fetching"
    /\ outcome[src] = "pending"
    /\ src = DIRO => \A c \in Concurrent : outcome[c] # "pending"
    /\ how = "thrown" => src \in CanThrow
    /\ how # "ok" => data = << >>
    /\ Received + Len(Delivered(src, how, data)) <= MaxBatch
    /\ outcome' = [outcome EXCEPT ![src] = how]
    /\ IF revision = "scripts"
       THEN /\ fluxMonitor' = [s \in Sources |->
                 IF s = src \/ outcome[s] # "pending"
                 THEN monitorFetch(how = "thrown", Len(Delivered(src, how, data)),
                                   now, loadPreviousFluxStatus, src)
                 ELSE fluxMonitor[s]]
            /\ fetched' = [fetched EXCEPT ![src] = Delivered(src, how, data)]
            /\ pc' = IF \A o \in Sources \ {src} : outcome[o] # "pending"
                     THEN "converting" ELSE pc
       ELSE /\ fluxMonitor' = fluxMonitor
            /\ fetched' = [fetched EXCEPT ![src] = Delivered(src, how, data)]
            /\ pc' = IF how = "thrown" THEN "failed"
                     ELSE IF \A o \in Sources \ {src} : outcome[o] # "pending"
                     THEN "converting" ELSE pc
    /\ UNCHANGED <<revision, runs, now, uniqueIdCounter, normalized, features, stats,
                   ai, archive, lastRun, geojson, metadata, writes, probe, verdict, tryVars, overlapVars>>

\* One source's fetch settles.  how = "ok": the function returned data;
\* "caught": it failed and its own catch returned []; "thrown": it rejected.
FetchSettles(src, how, data) ==
    /\ pc = "fetching"
    /\ outcome[src] = "pending"
    /\ src = DIRO => \A c \in Concurrent : outcome[c] # "pending"
    /\ how = "thrown" => src \in CanThrow
    /\ how # "ok" => data = << >>
    /\ Received + Len(Delivered(src, how, data)) <= MaxBatch
    /\ outcome' = [outcome EXCEPT ![src] = how]
    /\ IF revision = "scripts"
       THEN /\ fluxMonitor' = [fluxMonitor EXCEPT ![src] =
                 monitorFetch(how = "thrown", Len(Delivered(src, how, data)),
                                           now, loadPreviousFluxStatus, src)]
            /\ fetched' = [fetched EXCEPT ![src] = Delivered(src, how, data)]
            /\ pc' = IF \A o \in Sources \ {src} : outcome[o] # "pending"
                     THEN "converting" ELSE pc
       ELSE /\ fluxMonitor' = fluxMonitor
            /\ fetched' = [fetched EXCEPT ![src] = Delivered(src, how, data)]
            /\ pc' = IF how = "thrown" THEN "failed"
                     ELSE IF \A o \in Sources \ {src} : outcome[o] # "pending"
                     THEN "converting" ELSE pc
    /\ UNCHANGED <<revision, runs, now, uniqueIdCounter, normalized, features, stats,
                   ai, archive, lastRun, geojson, metadata, writes, probe, verdict, tryVars, overlapVars>>

Fetch ==
    \E src \in Sources, how \in {"ok", "caught", "thrown"} :
       \E data \in SeqsUpTo(RawUniverse(src, now), MaxBatch) :
          FetchSettles(src, how, data)

\* conversion loop body that counts a feature as kept whatever the filter says
ConvertOneCountAll(acc, source, raw, clock) ==
    LET made == ToFeature(source, raw, acc.uid) IN
    IF Len(made) = 0 THEN acc
    ELSE LET feature == made[1]
             result == shouldKeepFeature(feature, clock)
         IN [uid |-> acc.uid + 1,
             normalized |-> Append(acc.normalized, feature),
             features |-> IF result.keep THEN Append(acc.features, feature)
                          ELSE acc.features,
             garde |-> [acc.garde EXCEPT ![source] = @ + 1],
             resolus |-> IF ~result.keep /\ result.filteredResolved
                         THEN acc.resolus + 1 ELSE acc.resolus]

\* ConvertOne with a generateUniqueId that returns the counter without
\* incrementing it
ConvertOneSameId(acc, source, raw, clock) ==
    LET made == ToFeature(source, raw, acc.uid) IN
    IF Len(made) = 0 THEN acc
    ELSE LET feature == made[1]
             result == shouldKeepFeature(feature, clock)
         IN [uid |-> acc.uid,
             normalized |-> Append(acc.normalized, feature),
             features |-> IF result.keep THEN Append(acc.features, feature)
                          ELSE acc.features,
             garde |-> [acc.garde EXCEPT ![source] = IF result.keep THEN @ + 1 ELSE @],
             resolus |-> IF ~result.keep /\ result.filteredResolved
                         THEN acc.resolus + 1 ELSE acc.resolus]

\* the body of one forEach iteration of the conversion loops
ConvertOne(acc, source, raw, clock) ==
    LET made == ToFeature(source, raw, acc.uid) IN
    IF Len(made) = 0 THEN acc
    ELSE LET feature == made[1]
             result == shouldKeepFeature(feature, clock)
         IN [uid |-> acc.uid + 1,
             normalized |-> Append(acc.normalized, feature),
             features |-> IF result.keep THEN Append(acc.features, feature)
                          ELSE acc.features,
             garde |-> [acc.garde EXCEPT ![source] = IF result.keep THEN @ + 1 ELSE @],
             resolus |-> IF ~result.keep /\ result.filteredResolved
                         THEN acc.resolus + 1 ELSE acc.resolus]

RECURSIVE ConvertRecords(_, _, _, _, _)
ConvertRecords(acc, source, raws, clock, i) ==
    IF i > Len(raws) THEN acc
    ELSE ConvertRecords(ConvertOne(acc, source, raws[i], clock), source, raws, clock, i + 1)

\* conversion loops that stop at the first source whose list is empty
RECURSIVE ConvertUntilEmpty(_, _, _, _)
ConvertUntilEmpty(acc, got, clock, k) ==
    IF k > Len(SourceOrder) THEN acc
    ELSE IF got[SourceOrder[k]] = << >> THEN acc
    ELSE ConvertUntilEmpty(ConvertRecords(acc, SourceOrder[k], got[SourceOrder[k]], clock, 1),
                           got, clock, k + 1)

RECURSIVE ConvertSources(_, _, _, _)
ConvertSources(acc, got, clock, k) ==
    IF k > Len(SourceOrder) THEN acc
    ELSE ConvertSources(ConvertRecords(acc, SourceOrder[k], got[SourceOrder[k]], clock, 1),
                        got, clock, k + 1)

SumGarde(garde) == garde[Grist] + garde[CD44] + garde[Rennes]
                   + garde[CD35] + garde[CD56] + garde[DIRO]

\* Conversion and filtering of the six result lists, then the totals
Convert ==
    /\ pc = "converting"
    /\ LET acc == ConvertSources([uid |-> uniqueIdCounter, normalized |-> << >>,
                                  features |-> << >>,
                                  garde |-> [src \in Sources |-> 0], resolus |-> 0],
                                 fetched, now, 1)
       IN /\ uniqueIdCounter' = acc.uid
          /\ normalized' = acc.normalized
          /\ features' = acc.features
          /\ stats' = [recupere |-> [src \in Sources |-> Len(fetched[src])],
                       garde |-> acc.garde,
                       resolus_filtres |-> acc.resolus,
                       totalBrut |-> Received,
                       totalGarde |-> SumGarde(acc.garde),
                       totalFiltre |-> Received - SumGarde(acc.garde)]
    /\ ai' = 1
    /\ pc' = "archiving"
    /\ UNCHANGED <<revision, runs, now, outcome, fetched, fluxMonitor, archive, lastRun,
                   geojson, metadata, writes, probe, verdict, tryVars, overlapVars>>

\* features.forEach(feature => addOrUpdateInArchive(feature)), one call
ArchiveFeature ==
    /\ pc = "archiving"
    /\ ai <= Len(features)
    /\ archive' = addOrUpdateInArchive(archive, features[ai], revision)
    /\ writes' = IF ArchiveTarget(features[ai], revision) = Null THEN writes
                 ELSE Append(writes, [year |-> ArchiveTarget(features[ai], revision),
                                      file |-> "archive"])
    /\ ai' = ai + 1
    /\ UNCHANGED <<revision, runs, now, pc, outcome, fetched, fluxMonitor,
                   uniqueIdCounter, normalized, features, stats, lastRun, geojson,
                   metadata, probe, verdict, tryVars, overlapVars>>

\* the years detectDeletedSignalements saved, current year first
DetectWrites(before, after, clock) ==
    LET changed(y) == loadArchive(before, y) # loadArchive(after, y)
        w(y) == IF changed(y) THEN << [year |-> y, file |-> "archive"] >> ELSE << >>
    IN w(clock.y) \o w(clock.y - 1)

\* part_002: detectDeletedSignalements(features) after the archive loop
DetectDeleted ==
    /\ pc = "archiving"
    /\ ai > Len(features)
    /\ revision = "part_002"
    /\ LET res == detectDeletedSignalements(archive, lastRun, features, now, revision)
       IN /\ archive' = res.arch
          /\ lastRun' = res.lastRun
          /\ writes' = writes \o DetectWrites(archive, res.arch, now)
                        \o << [year |-> 0, file |-> "last_run"] >>
    /\ pc' = "emitting"
    /\ UNCHANGED <<revision, runs, now, outcome, fetched, fluxMonitor, uniqueIdCounter,
                   normalized, features, stats, ai, geojson, metadata, probe, verdict, tryVars, overlapVars>>

\* scripts: the call of detectDeletedSignalements is commented out
SkipDetection ==
    /\ pc = "archiving"
    /\ ai > Len(features)
    /\ revision = "scripts"
    /\ pc' = "emitting"
    /\ UNCHANGED <<revision, runs, now, outcome, fetched, fluxMonitor, uniqueIdCounter,
                   normalized, features, stats, ai, archive, lastRun, geojson, metadata,
                   writes, probe, verdict, tryVars, overlapVars>>

\* fs.writeFileSync('signalements.geojson', ...)
WriteGeojson ==
    /\ pc = "emitting"
    /\ geojson' = [features |-> features, run |-> runs,
                   total_count |-> Len(features),
                   sources |-> [src \in Sources |-> Len(fetched[src])]]
    /\ writes' = Append(writes, [year |-> 0, file |-> "signalements"])
    /\ pc' = "metadata"
    /\ UNCHANGED <<revision, runs, now, outcome, fetched, fluxMonitor, uniqueIdCounter,
                   normalized, features, stats, ai, archive, lastRun, metadata,
                   probe, verdict, tryVars, overlapVars>>

CountSource(feats, src) ==
    Cardinality({i \in 1..Len(feats) : feats[i].source = src})

\* the flux_monitoring block of metadata.json (scripts only)
fluxMonitoring(fm) ==
    [summary |-> fluxSummary(fm), globalStatus |-> globalStatus(fm), sources |-> fm]

\* fs.writeFileSync('metadata.json', ...)
WriteMetadata ==
    /\ pc = "metadata"
    /\ metadata' = [run |-> runs,
                    totalRecus |-> stats.totalBrut,
                    totalInclus |-> stats.totalGarde,
                    totalFiltres |-> stats.totalFiltre,
                    resolus_filtres_3jours |-> stats.resolus_filtres,
                    sources_recues |-> [src \in Sources |-> Len(fetched[src])],
                    sources_incluses |-> [src \in Sources |-> CountSource(features, src)],
                    flux_monitoring |-> IF revision = "scripts"
                                        THEN fluxMonitoring(fluxMonitor)
                                        ELSE fluxMonitoring([src \in Sources |-> NoStatus])]
    /\ writes' = Append(writes, [year |-> 0, file |-> "metadata"])
    /\ pc' = "done"
    /\ UNCHANGED <<revision, runs, now, outcome, fetched, fluxMonitor, uniqueIdCounter,
                   normalized, features, stats, ai, archive, lastRun, geojson,
                   probe, verdict, tryVars, overlapVars>>

\* writeFileSync of an output document throws: catch, process.exit(1)
WriteFails ==
    /\ pc \in {"emitting", "metadata"}
    /\ pc' = "failed"
    /\ UNCHANGED <<revision, runs, now, outcome, fetched, fluxMonitor, uniqueIdCounter,
                   normalized, features, stats, ai, archive, lastRun, geojson, metadata,
                   writes, probe, verdict, tryVars, overlapVars>>

StartRun == StartRunUpTo(MaxRuns)

Next ==
    \/ StartRun
    \/ Fetch
    \/ Convert
    \/ ArchiveFeature
    \/ DetectDeleted
    \/ SkipDetection
    \/ WriteGeojson
    \/ WriteMetadata
    \/ WriteFails

Spec == Init /\ [][Next]_vars

\* ------------------------------------------------------------------------
\* Sequences of runs.  The fetches of a run settle in the order in which
\* mergeSources starts them, and a fetch function that fails inside its own
\* try/catch is not told apart from one that finds nothing (both return []).
\* The output documents are always writable, no fetch function rejects, and
\* the sources deliver core records.
\* ------------------------------------------------------------------------
StartNextRun == StartRunUpTo(MaxSeqRuns)

Settled(k) == outcome[SourceOrder[k]] # "pending"

FetchInOrder ==
    \E k \in 1..Len(SourceOrder) :
       \E data \in SeqsUpTo(CoreUniverse(SourceOrder[k], now), MaxSeqBatch) :
          /\ \A j \in 1..(k - 1) : Settled(j)
          /\ Received + Len(data) <= MaxSeqBatch
          /\ FetchSettles(SourceOrder[k], "ok", data)

NextSeq ==
    \/ StartNextRun
    \/ FetchInOrder
    \/ Convert
    \/ ArchiveFeature
    \/ DetectDeleted
    \/ SkipDetection
    \/ WriteGeojson
    \/ WriteMetadata

SpecSeq == Init /\ [][NextSeq]_vars

\* ------------------------------------------------------------------------
\* The lifecycle filter on its own: shouldKeepFeature applied to a feature
\* of any status with any date_fin, at a clock with or without seconds.
\* ------------------------------------------------------------------------
ProbeClocks ==
    { [y |-> BaseYear, m |-> RunMinute0, s |-> 0],
      [y |-> BaseYear, m |-> RunMinute0, s |-> 30],
      [y |-> BaseYear + 1, m |-> Day(1), s |-> 0] }

ProbeFins(clock) ==
    { NoDate, BadDate,
      formatDate(RawAgo(clock, Day(3) - 1)),
      formatDate(RawAgo(clock, Day(3))),
      formatDate(RawAgo(clock, Day(3) + 1)),
      formatDate(RawAgo(clock, Day(10))),
      formatDate(RawAgo(clock, 0)) }

ProbeStatuts == {"Actif", "Resolu", "Supprime", "prevu"}

ProbeFeature(statut, fin) ==
    [Feature(1, 1, Grist, statut, statut = "Actif", statut = "Resolu", "Totale", 0, 0,
             formatDate(Debut1), fin) EXCEPT !.date_fin = fin]

InitFilter ==
    /\ InitRun
    /\ revision = "scripts"
    /\ verdict = NoVerdict
    /\ NoTry
    /\ NoOverlap
    /\ \E clock \in ProbeClocks, statut \in ProbeStatuts :
          \E fin \in ProbeFins(clock) :
             probe = [now |-> clock, feature |-> ProbeFeature(statut, fin)]

ApplyFilter ==
    /\ ~verdict.applied
    /\ verdict' = [keep |-> shouldKeepFeature(probe.feature, probe.now).keep,
                   filteredResolved |->
                       shouldKeepFeature(probe.feature, probe.now).filteredResolved,
                   applied |-> TRUE]
    /\ UNCHANGED <<runVars, probe, tryVars, overlapVars>>

SpecFilter == InitFilter /\ [][ApplyFilter]_vars

\* ------------------------------------------------------------------------
\* The health summary on its own: metadata.json written from any table of
\* per-source status records.
\* ------------------------------------------------------------------------
HealthClock == [y |-> BaseYear, m |-> RunMinute0 + RunCadence, s |-> 0]

HealthRecords ==
    { monitorFetch(FALSE, 0, HealthClock, loadPreviousFluxStatus, Grist),
      monitorFetch(FALSE, 1, HealthClock, loadPreviousFluxStatus, Grist),
      monitorFetch(TRUE, 0, HealthClock, loadPreviousFluxStatus, Grist) }

InitHealth ==
    /\ revision = "scripts"
    /\ runs = 1
    /\ now = HealthClock
    /\ pc = "metadata"
    /\ outcome = [src \in Sources |-> "ok"]
    /\ fetched = [src \in Sources |-> << >>]
    /\ fluxMonitor \in [Sources -> HealthRecords]
    /\ uniqueIdCounter = 1
    /\ normalized = << >>
    /\ features = << >>
    /\ stats = NoStats
    /\ ai = 1
    /\ archive = << >>
    /\ lastRun = [date |-> Null, actifs |-> [src \in Sources |-> << >>]]
    /\ geojson = NoFile
    /\ metadata = NoFile
    /\ writes = << >>
    /\ probe = NoProbe
    /\ verdict = NoVerdict
    /\ NoTry
    /\ NoOverlap

SpecHealth == InitHealth /\ [][WriteMetadata]_vars

\* ========================================================================
\* Properties
\* ========================================================================
\* the reports a run at this clock can hand to addOrUpdateInArchive
Reports(clock) ==
    UNION { { ToFeature(src, raw, 1)[1] :
                raw \in { r \in CoreUniverse(src, clock) : Len(ToFeature(src, r, 1)) = 1 } }
            : src \in Sources }

SameKey(entry, feature) ==
    entry.source = feature.source /\ entry.id_source = feature.id_source

KeyIndexes(feats, feature) ==
    { i \in 1..Len(feats) : SameKey(feats[i], feature) }

\* C1: from every reachable archive, upserting the same report twice in a
\* row leaves the year partition of its date_debut as the first upsert left
\* it: same number of entries, same entries.
C1_UpsertTwiceIsUpsertOnce ==
    \A f \in Reports(now) :
       LET once == addOrUpdateInArchive(archive, f, revision)
           twice == addOrUpdateInArchive(once, f, revision)
           year == getYearFromDateDebut(f.date_debut)
       IN year # Null => loadArchive(twice, year) = loadArchive(once, year)

\* C2: when the partition holds exactly one entry with the (source,
\* id_source) of the upserted report and that entry has another date_debut,
\* the upsert appends the report and leaves every prior entry as it was, so
\* the partition then holds exactly two entries for the pair, with the two
\* date_debut.
C2_ReusedIdAppends ==
    [][ ( /\ pc = "archiving"
          /\ ai <= Len(features)
          /\ ArchiveTarget(features[ai], revision) # Null
          /\ LET part == loadArchive(archive, ArchiveTarget(features[ai], revision))
             IN /\ Cardinality(KeyIndexes(part, features[ai])) = 1
                /\ \A i \in KeyIndexes(part, features[ai]) :
                      part[i].date_debut # features[ai].date_debut )
        => LET f == features[ai]
               year == ArchiveTarget(f, revision)
               before == loadArchive(archive, year)
               after == loadArchive(archive', year)
           IN /\ Len(after) = Len(before) + 1
              /\ \A i \in 1..Len(before) : after[i] = before[i]
              /\ SameKey(after[Len(after)], f)
              /\ after[Len(after)].date_debut = f.date_debut
              /\ Cardinality(KeyIndexes(after, f)) = 2
      ]_vars

\* C2 witness: a partition holding two entries of one (source, id_source)
\* with different date_debut, the second appended by the last upsert
C2_Witness ==
    /\ pc = "archiving"
    /\ ai > 1
    /\ \E year \in DOMAIN archive :
          LET part == archive[year] IN
          /\ Len(part) = 2
          /\ SameKey(part[1], part[2])
          /\ part[2].id_source # Null
          /\ part[1].date_debut # part[2].date_debut
          /\ SameKey(part[2], features[ai - 1])
          /\ part[2].date_debut = features[ai - 1].date_debut

\* C3: at the end of the archival step, every (source, id_source) that
\* last_run.json lists as active and that is not active among the run's
\* features has each of its entries of the current and previous year that
\* is still active and without date_suppression marked "Supprime" with a
\* date_suppression.
VanishedPairs ==
    { pair \in Sources \X (Ids \cup {Null}) :
        /\ InSeq(pair[2], lastRun.actifs[pair[1]])
        /\ ~InSeq(pair[2], ActiveIds(features, pair[1], 1)) }

C3_VanishedIsMarkedDeleted ==
    [][ ( /\ pc = "archiving"
          /\ ai > Len(features)
          /\ lastRun.date # Null )
        => \A pair \in VanishedPairs, year \in {now.y, now.y - 1} :
              \A i \in 1..Len(loadArchive(archive, year)) :
                 LET entry == loadArchive(archive, year)[i] IN
                 ( /\ entry.source = pair[1]
                   /\ entry.id_source = pair[2]
                   /\ entry.statut_actif
                   /\ entry.date_suppression.k = "none" )
                 => /\ loadArchive(archive', year)[i].statut = "Supprime"
                    /\ loadArchive(archive', year)[i].date_suppression.k # "none"
      ]_vars

\* C4: the filter keeps a resolved feature whose date_fin is a display
\* date exactly when the clock is at most 72 hours past date_fin; at 72 h
\* sharp it is kept, at 72 h and one minute it is not.
Age(feature, clock) ==
    Instant(clock.y, clock.m, clock.s) - Instant(feature.date_fin.y, feature.date_fin.m, 0)

C4_ResolvedKeptUpTo72h ==
    ( /\ verdict.applied
      /\ probe.feature.statut_resolu
      /\ probe.feature.date_fin.k = "fr" )
    => /\ verdict.keep <=> Age(probe.feature, probe.now) <= 72 * 60 * 60
       /\ verdict.filteredResolved <=> ~verdict.keep

\* C4 witness: a resolved feature that ended 72 hours before the clock,
\* to the second, has been kept
C4_Witness ==
    /\ verdict.applied
    /\ probe.feature.statut_resolu
    /\ probe.feature.date_fin.k = "fr"
    /\ Age(probe.feature, probe.now) = 72 * 60 * 60
    /\ verdict.keep

\* C5: the filter keeps every active feature, whether its date_fin is
\* empty, not a display date, recent or more than three days past.
C5_ActiveAlwaysKept ==
    (verdict.applied /\ probe.feature.statut_actif) => verdict.keep

\* C5 witness: an active feature whose date_fin is ten days past has been kept
C5_Witness ==
    /\ verdict.applied
    /\ probe.feature.statut_actif
    /\ probe.feature.date_fin.k = "fr"
    /\ Age(probe.feature, probe.now) > 72 * 60 * 60
    /\ verdict.keep

\* C32: the filter keeps every resolved feature whose date_fin is empty or
\* is not a display date, at every clock, and does not count it as a
\* resolved feature filtered out.
C32_UndatedResolvedIsKept ==
    ( /\ verdict.applied
      /\ probe.feature.statut_resolu
      /\ probe.feature.date_fin.k # "fr" )
    => /\ verdict.keep
       /\ ~verdict.filteredResolved

\* C32 witness: a resolved feature whose date_fin is a string in another
\* format has been kept
C32_Witness ==
    /\ verdict.applied
    /\ probe.feature.statut_resolu
    /\ probe.feature.date_fin = BadDate
    /\ verdict.keep

\* C6: signalements.geojson never holds a feature whose statut is
\* "Supprime".
C6_NoDeletedPublished ==
    geojson # NoFile =>
       \A i \in 1..Len(geojson.features) : geojson.features[i].statut # "Supprime"

\* C7: when last_run.json is absent or carries no date, the detection step
\* changes no archive partition and does nothing but save the snapshot of
\* the run: this holds of detectDeletedSignalements on every archive the
\* runs reach once the date of the snapshot is taken away, and of the
\* detection step of a first run.
DatelessLastRun == [lastRun EXCEPT !.date = Null]

C7_FirstRunOnlySavesSnapshot ==
    [][ ( /\ pc = "archiving"
          /\ ai > Len(features) )
        => LET first == detectDeletedSignalements(archive, DatelessLastRun, features,
                                                  now, revision)
           IN /\ first.arch = archive
              /\ first.lastRun.date # Null
              /\ first.lastRun.actifs = currentActifs(features, revision)
              /\ (revision = "part_002" /\ lastRun.date = Null)
                 => /\ archive' = archive
                    /\ lastRun' = first.lastRun
                    /\ writes' = Append(writes, [year |-> 0, file |-> "last_run"])
      ]_vars

\* C7 witness: the detection step of a first run is past, with a feature
\* archived, and its last write is last_run.json
C7_Witness ==
    /\ revision = "part_002"
    /\ runs = 1
    /\ pc = "emitting"
    /\ archive # << >>
    /\ lastRun.date # Null
    /\ lastRun.actifs[Grist] # << >>
    /\ writes[Len(writes)].file = "last_run"

\* C8: the globalStatus written to metadata.json is "CRITICAL" exactly when
\* a source is in ERROR, "DEGRADED" exactly when none is in ERROR and one
\* is EMPTY, and "OK" exactly when none is in ERROR or EMPTY.
SomeStatus(fm, st) == \E src \in Sources : fm[src].status = st

C8_GlobalStatus ==
    metadata # NoFile =>
       LET flux == metadata.flux_monitoring IN
       /\ flux.sources = fluxMonitor
       /\ flux.globalStatus = "CRITICAL" <=> SomeStatus(flux.sources, "ERROR")
       /\ flux.globalStatus = "DEGRADED" <=> /\ ~SomeStatus(flux.sources, "ERROR")
                                             /\ SomeStatus(flux.sources, "EMPTY")
       /\ flux.globalStatus = "OK" <=> /\ ~SomeStatus(flux.sources, "ERROR")
                                       /\ ~SomeStatus(flux.sources, "EMPTY")

\* C8 witness: metadata.json written with sources in OK, ERROR and EMPTY
\* and a globalStatus of "CRITICAL"
C8_Witness ==
    /\ metadata # NoFile
    /\ SomeStatus(metadata.flux_monitoring.sources, "OK")
    /\ SomeStatus(metadata.flux_monitoring.sources, "ERROR")
    /\ SomeStatus(metadata.flux_monitoring.sources, "EMPTY")
    /\ metadata.flux_monitoring.globalStatus = "CRITICAL"

\* ------------------------------------------------------------------------
\* The single run of the revision with monitorFetch under fairness: the
\* process always takes its next step.  A fetch that is pending settles
\* (every request ends in a response, an error event or a rejection), each
\* synchronous step of mergeSources runs to its end, and a write of an
\* output document succeeds or throws.
\* ------------------------------------------------------------------------
InitLive == Init /\ revision = "scripts"

FetchLive ==
    \E src \in Sources, how \in {"ok", "caught", "thrown"} :
       \E data \in SeqsUpTo(CoreUniverse(src, now), MaxLivePerSource) :
          /\ Received + Len(data) <= MaxLiveBatch
          /\ FetchSettles(src, how, data)

NextLive ==
    \/ StartRun
    \/ FetchLive
    \/ Convert
    \/ ArchiveFeature
    \/ SkipDetection
    \/ WriteGeojson
    \/ WriteMetadata
    \/ WriteFails

SpecLive == InitLive /\ [][NextLive]_vars /\ WF_vars(NextLive)

Failed(src) == outcome[src] \in {"caught", "thrown"}

\* the features of doc that come from src, without their sequential id
FromSource(feats, src) ==
    LET Strip(i, out) == IF feats[i].source = src
                         THEN Append(out, [feats[i] EXCEPT !.id = 0]) ELSE out
        RECURSIVE Walk(_, _)
        Walk(i, out) == IF i > Len(feats) THEN out ELSE Walk(i + 1, Strip(i, out))
    IN Walk(1, << >>)

\* what src delivered, normalized, that passes the filter, in order
Passing(src) ==
    LET raws == fetched[src]
        Take(i, out) ==
            LET made == ToFeature(src, raws[i], 0) IN
            IF Len(made) = 1 /\ ( \/ made[1].statut_actif
                                  \/ ~made[1].statut_resolu
                                  \/ made[1].date_fin.k # "fr"
                                  \/ Age(made[1], now) <= 72 * 60 * 60 )
            THEN Append(out, made[1]) ELSE out
        RECURSIVE Walk(_, _)
        Walk(i, out) == IF i > Len(raws) THEN out ELSE Walk(i + 1, Take(i, out))
    IN Walk(1, << >>)

\* C9: in the revision with monitorFetch, a run in which a fetch fails is
\* never ended by that failure (only a failing write of an output document
\* ends a run early), every run comes to its end, and the
\* signalements.geojson of a finished run in which a source failed holds,
\* for every other source, all the features normalized from what it
\* delivered that pass the filter.
C9_FailureOfOneSourceIsContained ==
    /\ [][ (revision = "scripts" /\ pc' = "failed") => pc \in {"emitting", "metadata"} ]_vars
    /\ (revision = "scripts" /\ pc = "fetching") ~> (pc \in {"done", "failed"})
    /\ [] ( ( /\ revision = "scripts"
              /\ pc = "done"
              /\ \E src \in Sources : Failed(src) )
            => \A src \in Sources :
                  ~Failed(src) => FromSource(geojson.features, src) = Passing(src) )

\* C9 witness: a finished run in which one source threw, another failed
\* inside its fetch function, and two further sources each have their
\* feature published
C9_Witness ==
    /\ revision = "scripts"
    /\ pc = "done"
    /\ \E src \in Sources : outcome[src] = "thrown"
    /\ \E src \in Sources : outcome[src] = "caught"
    /\ \E s1 \in Sources, s2 \in Sources :
          /\ s1 # s2
          /\ ~Failed(s1) /\ ~Failed(s2)
          /\ Len(Passing(s1)) = 1 /\ Len(Passing(s2)) = 1
          /\ FromSource(geojson.features, s1) = Passing(s1)
          /\ FromSource(geojson.features, s2) = Passing(s2)

\* C10: in metadata.json the status of every source whose fetch failed is
\* "ERROR".
C10_FailedFetchIsError ==
    (revision = "scripts" /\ metadata # NoFile) =>
       \A src \in Sources :
          Failed(src) => metadata.flux_monitoring.sources[src].status = "ERROR"

\* C11: in the metadata.json of a finished run, totalInclus is the sum of
\* sources_incluses and the number of features of signalements.geojson,
\* totalRecus - totalInclus is totalFiltres, and totalFiltres counts exactly
\* the received records that no converter turned into a feature or that the
\* filter refused.
SumOver(count) == count[Grist] + count[CD44] + count[Rennes]
                  + count[CD35] + count[CD56] + count[DIRO]

Refused == [src \in Sources |-> Len(fetched[src]) - Len(Passing(src))]

C11_TotalsAddUp ==
    pc = "done" =>
       /\ metadata.run = runs /\ geojson.run = runs
       /\ metadata.totalRecus = SumOver(metadata.sources_recues)
       /\ metadata.sources_recues = [src \in Sources |-> Len(fetched[src])]
       /\ metadata.totalInclus = SumOver(metadata.sources_incluses)
       /\ metadata.totalInclus = Len(geojson.features)
       /\ metadata.totalInclus = geojson.total_count
       /\ metadata.totalRecus - metadata.totalInclus = metadata.totalFiltres
       /\ metadata.totalFiltres = SumOver(Refused)

\* C11 witness: a finished run that received two records, published one
\* and refused the other as resolved for more than three days
C11_Witness ==
    /\ pc = "done"
    /\ metadata.totalRecus = 2
    /\ metadata.totalInclus = 1
    /\ metadata.totalFiltres = 1
    /\ metadata.resolus_filtres_3jours = 1

\* C12: when the archival step of a run is over, every report the run
\* normalized, kept by the filter or not, has been upserted: the partition
\* of its date_debut holds an entry of its (source, id_source, date_debut),
\* and that entry is resolved when the report is resolved with a date_fin.
C12_AllNormalizedArchived ==
    pc = "emitting" =>
       \A i \in 1..Len(normalized) :
          LET f == normalized[i]
              year == ArchiveTarget(f, revision)
          IN year # Null =>
                \E j \in 1..Len(loadArchive(archive, year)) :
                   LET entry == loadArchive(archive, year)[j] IN
                   /\ SameKey(entry, f)
                   /\ entry.date_debut = f.date_debut
                   /\ (f.statut_resolu /\ f.date_fin.k # "none") => entry.statut_resolu

\* C13: the upsert of a report whose id_source is null never matches an
\* archived entry: it leaves every entry of the partition as it was and
\* appends the report as a new entry.
C13_NullIdAlwaysAppended ==
    [][ ( /\ pc = "archiving"
          /\ ai <= Len(features)
          /\ features[ai].id_source = Null
          /\ ArchiveTarget(features[ai], revision) # Null )
        => LET year == ArchiveTarget(features[ai], revision) IN
           loadArchive(archive', year)
              = Append(loadArchive(archive, year),
                       [features[ai] EXCEPT !.date_suppression = NoDate])
      ]_vars

\* the entries of all partitions of an archive
Entries(a) ==
    UNION { { a[year][i] : i \in 1..Len(a[year]) } : year \in DOMAIN a }

\* C14: in every state, an archive entry has a date_suppression exactly
\* when its statut is "Supprime".
C14_DeletionDateIffDeleted ==
    \A entry \in Entries(archive) :
       entry.date_suppression.k # "none" <=> entry.statut = "Supprime"

\* the features of signalements.geojson, none before the first write
Published ==
    IF geojson = NoFile THEN {}
    ELSE { geojson.features[i] : i \in 1..Len(geojson.features) }

\* statut is one of the three labels and the two flags say the same
OneStatus(f) ==
    /\ f.statut \in {"Actif", "Resolu", "Supprime"}
    /\ ~(f.statut_actif /\ f.statut_resolu)
    /\ f.statut_actif <=> f.statut = "Actif"
    /\ f.statut_resolu <=> f.statut = "Resolu"

\* C15: in every state, every archive entry and every published feature is
\* in exactly one of the states active, resolved, deleted: statut_actif and
\* statut_resolu are never both true and statut agrees with them.
C15_ExactlyOneStatus ==
    \A f \in Entries(archive) \cup Published : OneStatus(f)

\* ------------------------------------------------------------------------
\* Successive runs on a file system that can fail.  readFileSync of an
\* existing partition can throw or return text that JSON.parse refuses:
\* loadArchive then answers an empty collection.  writeFileSync can throw:
\* in saveArchive and saveLastRun nothing catches it before the catch of
\* mergeSources.  writeFileSync opens its file for writing, which empties
\* it, and then writes: when it throws after that, only a part of the
\* document is in the file.
\* ------------------------------------------------------------------------
StartFaultRun == StartRunUpTo(MaxFaultRuns)

\* the archive as loadArchive(year) sees it when the read of year fails
Unreadable(a, year) == [a EXCEPT ![year] = << >>]

\* addOrUpdateInArchive(feature) whose loadArchive hits a read error
ArchiveReadError ==
    /\ pc = "archiving"
    /\ ai <= Len(features)
    /\ ArchiveTarget(features[ai], revision) # Null
    /\ ArchiveTarget(features[ai], revision) \in DOMAIN archive
    /\ archive' = addOrUpdateInArchive(
                     Unreadable(archive, ArchiveTarget(features[ai], revision)),
                     features[ai], revision)
    /\ writes' = Append(writes, [year |-> ArchiveTarget(features[ai], revision),
                                 file |-> "archive"])
    /\ ai' = ai + 1
    /\ UNCHANGED <<revision, runs, now, pc, outcome, fetched, fluxMonitor,
                   uniqueIdCounter, normalized, features, stats, lastRun, geojson,
                   metadata, probe, verdict, tryVars, overlapVars>>

\* addOrUpdateInArchive(feature) whose saveArchive throws: catch of
\* mergeSources, process.exit(1)
ArchiveSaveFails ==
    /\ pc = "archiving"
    /\ ai <= Len(features)
    /\ ArchiveTarget(features[ai], revision) # Null
    /\ pc' = "failed"
    /\ UNCHANGED <<revision, runs, now, outcome, fetched, fluxMonitor, uniqueIdCounter,
                   normalized, features, stats, ai, archive, lastRun, geojson, metadata,
                   writes, probe, verdict, tryVars, overlapVars>>

\* part_002: saveLastRun at the end of detectDeletedSignalements throws
SnapshotSaveFails ==
    /\ pc = "archiving"
    /\ ai > Len(features)
    /\ revision = "part_002"
    /\ LET res == detectDeletedSignalements(archive, lastRun, features, now, revision)
       IN /\ archive' = res.arch
          /\ writes' = writes \o DetectWrites(archive, res.arch, now)
    /\ pc' = "failed"
    /\ UNCHANGED <<revision, runs, now, outcome, fetched, fluxMonitor, uniqueIdCounter,
                   normalized, features, stats, ai, lastRun, geojson, metadata,
                   probe, verdict, tryVars, overlapVars>>

\* writeFileSync('signalements.geojson') throws after it has written the
\* first k features only
WriteTorn ==
    /\ pc = "emitting"
    /\ \E k \in 0..(Len(features) - 1) :
          geojson' = [features |-> SubSeq(features, 1, k), run |-> runs,
                      total_count |-> Len(features),
                      sources |-> [src \in Sources |-> Len(fetched[src])]]
    /\ pc' = "failed"
    /\ UNCHANGED <<revision, runs, now, outcome, fetched, fluxMonitor, uniqueIdCounter,
                   normalized, features, stats, ai, archive, lastRun, metadata,
                   writes, probe, verdict, tryVars, overlapVars>>

NextFault ==
    \/ StartFaultRun
    \/ FetchInOrder
    \/ Convert
    \/ ArchiveFeature
    \/ ArchiveReadError
    \/ ArchiveSaveFails
    \/ DetectDeleted
    \/ SnapshotSaveFails
    \/ SkipDetection
    \/ WriteGeojson
    \/ WriteTorn
    \/ WriteMetadata
    \/ WriteFails

SpecFault == Init /\ [][NextFault]_vars

\* C16: a run ends with a non-zero exit only when a final output document
\* (signalements.geojson or metadata.json) could not be written; a failure
\* of the archive or of the snapshot, on load or on save, never ends the run.
C16_OnlyOutputWriteAborts ==
    [][pc' = "failed" => pc \in {"emitting", "metadata"}]_vars

\* C17: signalements.geojson only ever changes from the document of the
\* previous run to the complete published set of the current run, whether
\* the run completes or aborts; it never holds a part of a document.
C17_OutputWholeOrUntouched ==
    [][geojson' # geojson =>
          /\ pc = "emitting"
          /\ geojson'.run = runs
          /\ geojson'.features = features
          /\ geojson'.total_count = Len(features)]_vars

\* C18: when a run has completed, last_run.json holds the timestamp of that
\* run and exactly the (source, id_source) pairs of the reports of that run
\* that are active, in place of what the previous run had saved.
ActivePairs ==
    { pair \in Sources \X (Ids \cup {Null}) :
        \E i \in 1..Len(normalized) :
           /\ normalized[i].source = pair[1]
           /\ normalized[i].id_source = pair[2]
           /\ normalized[i].statut_actif }

C18_SnapshotIsActivePairsOfRun ==
    pc = "done" =>
       /\ lastRun.date = Instant(now.y, now.m, now.s)
       /\ \A pair \in Sources \X (Ids \cup {Null}) :
             InSeq(pair[2], lastRun.actifs[pair[1]]) <=> pair \in ActivePairs

\* C19: across any sequence of runs, runs that hit read errors included,
\* every year partition only grows or has entries updated in place: an
\* entry once archived stays in its partition, at its place, for the same
\* report (source, id_source) and the same event (date_debut).
C19_ArchiveNeverLosesEntries ==
    [][\A year \in DOMAIN archive :
          /\ year \in DOMAIN archive'
          /\ \A i \in 1..Len(archive[year]) :
                /\ i <= Len(archive'[year])
                /\ SameKey(archive'[year][i], archive[year][i])
                /\ archive'[year][i].date_debut = archive[year][i].date_debut]_vars

\* C20: when detection runs and no pair that vanished since the previous
\* run has an entry in the partitions it looks at (the year of the run and
\* the year before), whether those files exist or not, detection leaves
\* every partition as it was, creates none, and the run goes on to write
\* its output.
Unmatched(pair) ==
    \A year \in {now.y, now.y - 1} :
       \A i \in 1..Len(loadArchive(archive, year)) :
          ~ ( /\ loadArchive(archive, year)[i].source = pair[1]
              /\ loadArchive(archive, year)[i].id_source = pair[2] )

C20_UnmatchedVanishedIsIgnored ==
    [][ ( /\ pc = "archiving"
          /\ ai > Len(features)
          /\ revision = "part_002"
          /\ lastRun.date # Null
          /\ VanishedPairs # {}
          /\ \A pair \in VanishedPairs : Unmatched(pair) )
        => /\ archive' = archive
           /\ pc' = "emitting"
           /\ lastRun'.date = Instant(now.y, now.m, now.s)
      ]_vars

\* detection has run in the second run, where the report archived active by
\* the first run is absent and the partitions of the year of the run and
\* of the year before do not exist
C20_Witness ==
    /\ pc = "emitting"
    /\ revision = "part_002"
    /\ runs = 2
    /\ features = << >>
    /\ lastRun.date = Instant(now.y, now.m, now.s)
    /\ DOMAIN archive \cap {now.y, now.y - 1} = {}
    /\ \E entry \in Entries(archive) :
          /\ entry.statut_actif
          /\ entry.date_suppression.k = "none"
          /\ entry.id_source # Null
          /\ entry.source \notin Ignored(revision)

\* C21: in signalements.geojson as one run writes it, no two published
\* features have the same generated id.
C21_PublishedIdsDistinct ==
    geojson # NoFile =>
       \A i, j \in 1..Len(geojson.features) :
          i # j => geojson.features[i].id # geojson.features[j].id

\* a document with two published features, of one source or of two
C21_Witness ==
    /\ geojson # NoFile
    /\ Len(geojson.features) = 2
    /\ geojson.features[1].id = 1
    /\ geojson.features[2].id = 2

\* ------------------------------------------------------------------------
\* Runs in which a server accepts the connection and never answers.
\* https.get (Grist, CD44) is called without a timeout and without a
\* 'timeout' handler, and node-fetch (Rennes, CD35, CD56) without the
\* timeout option, except the fetch of CD35 in part_002 (timeout: 10000);
\* fetchDiroData reads a local file.  A call that never answers leaves its
\* promise pending, and with it the Promise.all that mergeSources awaits.
\* ------------------------------------------------------------------------
NoTimeout(rev) ==
    IF rev = "part_002" THEN {Grist, CD44, Rennes, CD56}
    ELSE {Grist, CD44, Rennes, CD35, CD56}

\* the network call of src never answers: await Promise.all never resumes
FetchStalls ==
    /\ pc = "fetching"
    /\ \E src \in NoTimeout(revision) : outcome[src] = "pending"
    /\ pc' = "stalled"
    /\ UNCHANGED <<revision, runs, now, outcome, fetched, fluxMonitor, uniqueIdCounter,
                   normalized, features, stats, ai, archive, lastRun, geojson, metadata,
                   writes, probe, verdict, tryVars, overlapVars>>

NextStall ==
    \/ NextLive
    \/ FetchStalls

SpecStall == InitLive /\ [][NextStall]_vars /\ WF_vars(NextStall)

\* C22: every run terminates: whatever the servers do, a run that has
\* started its fetches comes to its end (both documents written, or exit
\* on a failed write).
C22_EveryRunTerminates ==
    (pc = "fetching") ~> (pc \in {"done", "failed"})

\* C23: when the entry that an upsert finds for the (source, id_source) of
\* the incoming feature has the same date_debut, the partition keeps its
\* length and its other entries; the found entry becomes 'Résolu' with the
\* incoming date_fin exactly when it was not yet resolved and the incoming
\* feature is resolved with a date_fin, and otherwise keeps its status and
\* date_fin; its geometry, type_coupure and commentaire are the incoming
\* ones in both cases.
FirstKeyIndex(feats, feature) ==
    CHOOSE i \in KeyIndexes(feats, feature) :
       \A j \in KeyIndexes(feats, feature) : i <= j

C23_SameEventUpdatesInPlace ==
    [][ LET f == features[ai]
            year == ArchiveTarget(f, revision)
            feats == loadArchive(archive, year)
            after == loadArchive(archive', year)
            idx == FirstKeyIndex(feats, f)
            toResolved == /\ ~feats[idx].statut_resolu
                          /\ f.statut_resolu
                          /\ f.date_fin.k # "none"
        IN ( /\ pc = "archiving"
             /\ ai <= Len(features)
             /\ year # Null
             /\ KeyIndexes(feats, f) # {}
             /\ feats[idx].date_debut = f.date_debut )
           => /\ Len(after) = Len(feats)
              /\ \A j \in 1..Len(feats) : j # idx => after[j] = feats[j]
              /\ toResolved => /\ after[idx].statut = "Resolu"
                               /\ after[idx].statut_resolu
                               /\ after[idx].date_fin = f.date_fin
              /\ ~toResolved => /\ after[idx].statut = feats[idx].statut
                                /\ after[idx].statut_resolu = feats[idx].statut_resolu
                                /\ after[idx].date_fin = feats[idx].date_fin
              /\ after[idx].geometry = f.geometry
              /\ after[idx].type_coupure = f.type_coupure
              /\ after[idx].commentaire = f.commentaire
              /\ after[idx].source = feats[idx].source
              /\ after[idx].id_source = feats[idx].id_source
              /\ after[idx].date_debut = feats[idx].date_debut
      ]_vars

\* the second run has re-observed, with another type_coupure and without a
\* change of status, the report that the first run archived: the stored
\* entry carries the new type_coupure and the partition still has one entry
C23_Witness ==
    /\ runs = 2
    /\ pc = "emitting"
    /\ Len(features) = 1
    /\ features[1].type_coupure = "Partielle"
    /\ features[1].statut_actif
    /\ \E year \in DOMAIN archive :
          /\ Len(archive[year]) = 1
          /\ SameKey(archive[year][1], features[1])
          /\ archive[year][1].date_debut = features[1].date_debut
          /\ archive[year][1].type_coupure = "Partielle"
          /\ archive[year][1].id = 1
          /\ geojson # NoFile
          /\ Len(geojson.features) = 1
          /\ SameKey(geojson.features[1], features[1])
          /\ geojson.features[1].type_coupure = "Totale"

\* C24: whatever a step does to the archive, an entry already stored
\* differs afterwards from what it was at most in statut and its two
\* flags, date_fin, commentaire, geometry, type_coupure and
\* date_suppression: source, id_source and date_debut (and the id it was
\* archived with) stay.
C24_IdentityOfEntryIsPermanent ==
    [][\A year \in DOMAIN archive :
          \A i \in 1..Len(archive[year]) :
             LET old == archive[year][i]
                 new == loadArchive(archive', year)[i]
             IN new = [old EXCEPT !.statut = new.statut,
                                  !.statut_actif = new.statut_actif,
                                  !.statut_resolu = new.statut_resolu,
                                  !.date_fin = new.date_fin,
                                  !.commentaire = new.commentaire,
                                  !.geometry = new.geometry,
                                  !.type_coupure = new.type_coupure,
                                  !.date_suppression = new.date_suppression]]_vars

\* an entry on which both operations have acted: detection has stamped its
\* date_suppression and a later upsert has made it 'Résolu'
C24_Witness ==
    \E entry \in Entries(archive) :
       /\ entry.date_suppression.k # "none"
       /\ entry.statut = "Resolu"
       /\ entry.date_fin.k # "none"
       /\ entry.id_source # Null

\* C25: the upsert of a feature whose date_debut is empty or has no year
\* that can be read writes no partition, creates none, leaves the archive
\* as it is, and the loop goes on to the next feature.
C25_NoYearNoArchival ==
    [][ ( /\ pc = "archiving"
          /\ ai <= Len(features)
          /\ \/ features[ai].date_debut.k # "fr"
             \/ features[ai].date_debut.y = 0 )
        => /\ archive' = archive
           /\ writes' = writes
           /\ pc' = "archiving"
           /\ ai' = ai + 1
      ]_vars

\* a later run of the revision that archives every source has passed its
\* only feature, of CD35 and so without date_debut, to the upsert, with
\* partitions of earlier runs on disk
C25_Witness ==
    /\ revision = "scripts"
    /\ runs >= 2
    /\ pc = "archiving"
    /\ Len(features) = 1
    /\ ai = 2
    /\ features[1].source = CD35
    /\ features[1].date_debut = NoDate
    /\ DOMAIN archive # {}
    /\ writes = << >>

\* C26: within a run nothing is normalized and no file of the archive
\* (partition or last_run.json) is written while a fetch is still pending;
\* the archive and the snapshot change only in the archiving step; and the
\* run goes from fetching to converting to archiving to emitting (the two
\* documents, one after the other) to done, leaving that order only to end
\* in failure.
RunOrder ==
    { <<"idle", "fetching">>, <<"done", "fetching">>, <<"failed", "fetching">>,
      <<"fetching", "converting">>, <<"converting", "archiving">>,
      <<"archiving", "emitting">>, <<"emitting", "metadata">>,
      <<"metadata", "done">>,
      <<"fetching", "failed">>, <<"emitting", "failed">>, <<"metadata", "failed">> }

AllSettled == \A src \in Sources : outcome[src] # "pending"

C26_FetchThenConvertThenArchive ==
    /\ [] ( (normalized # << >> \/ writes # << >> \/ pc \in {"converting", "archiving"})
            => AllSettled )
    /\ [][ /\ pc' # pc => <<pc, pc'>> \in RunOrder
           /\ (archive' # archive \/ lastRun' # lastRun) => (pc = "archiving" /\ AllSettled)
           /\ normalized' # normalized =>
                 (pc = "converting" \/ (pc' = "fetching" /\ normalized' = << >>))
           /\ geojson' # geojson => pc = "emitting"
         ]_vars

\* a partition has been written in a run in which one fetch failed inside
\* its function and another delivered the report now archived
C26_Witness ==
    /\ pc = "archiving"
    /\ writes # << >>
    /\ \E src \in Sources : outcome[src] = "caught"
    /\ \E src \in Sources : outcome[src] = "ok" /\ fetched[src] # << >>
    /\ archive # << >>

\* ------------------------------------------------------------------------
\* fetchCD35InondationsData of part_002 (and part_000) on its own: a loop
\* of at most maxRetries attempts.  An attempt is the fetch of the WFS
\* document (timeout: 10000), response.text(), the XML parse and the
\* forEach over the members; whatever throws in it is caught by the catch
\* of the loop body.  Times are in seconds.  The "return []" that follows
\* the loop is never reached: the third failure returns from the catch.
\* ------------------------------------------------------------------------
maxRetries == 3
retryDelay == 2
fetchTimeout == 10

\* how long an attempt can last: an immediate answer, a slow one, the timeout
Durations == {1, 5, fetchTimeout}

\* the members of a WFS answer: with or without a usable Shape.Point.pos
MemberUniverse == { Raw(i, "", NoRaw, NoRaw, geo, 0) : i \in Ids, geo \in BOOLEAN }

\* members.forEach: a member without Inondation, Shape, Point, pos or with
\* coordinates that are not numbers is skipped
ParsedMembers(ms) == SelectSeq(ms, LAMBDA member : member.geo)

\* the test of the catch block with "attempt < maxRetries - 1": the loop
\* gives up one attempt early
GivesUpOneEarly(n) == ~(n < maxRetries - 1)

\* the test of the catch block: this failed attempt was the last one
GivesUp(n) == ~(n < maxRetries)

InitRetry == Init /\ revision = "part_002"

\* an attempt gets its document and parses it: return features
TrySucceeds ==
    /\ cd35Returned = << >>
    /\ ~retryWait
    /\ attempt < maxRetries
    /\ \E d \in Durations, ms \in SeqsUpTo(MemberUniverse, MaxMembers) :
          /\ attempt' = attempt + 1
          /\ elapsed' = elapsed + d
          /\ members' = ms
          /\ cd35Returned' = << ParsedMembers(ms) >>
    /\ tryOutcome' = "ok"
    /\ UNCHANGED <<runVars, probe, verdict, retryWait, overlapVars>>

\* an attempt throws (network error, timeout, HTTP status, XML that does
\* not parse): wait retryDelay, or return [] after the last attempt
TryFails ==
    /\ cd35Returned = << >>
    /\ ~retryWait
    /\ attempt < maxRetries
    /\ \E d \in Durations :
          /\ attempt' = attempt + 1
          /\ elapsed' = elapsed + d
    /\ tryOutcome' = "error"
    /\ IF GivesUp(attempt + 1)
       THEN /\ cd35Returned' = << << >> >>
            /\ retryWait' = FALSE
       ELSE /\ cd35Returned' = cd35Returned
            /\ retryWait' = TRUE
    /\ UNCHANGED <<runVars, probe, verdict, members, overlapVars>>

\* await new Promise(resolve => setTimeout(resolve, retryDelay))
RetryDelayEnds ==
    /\ retryWait
    /\ retryWait' = FALSE
    /\ elapsed' = elapsed + retryDelay
    /\ UNCHANGED <<runVars, probe, verdict, attempt, tryOutcome, members, cd35Returned, overlapVars>>

NextRetry ==
    \/ TrySucceeds
    \/ TryFails
    \/ RetryDelayEnds

SpecRetry == InitRetry /\ [][NextRetry]_vars /\ WF_vars(NextRetry)

\* C27: fetchCD35InondationsData with retries makes at most 3 attempts; a
\* new attempt is made only after a failed one and after the fixed delay
\* that follows it; the first attempt that succeeds returns the features
\* parsed from its answer; the array returned after failures is empty and
\* is returned after the third failure only; the whole call lasts at most
\* three timeouts and two delays, and it always returns.
C27_RetryIsBounded ==
    /\ [] ( /\ attempt <= maxRetries
            /\ elapsed <= maxRetries * fetchTimeout + (maxRetries - 1) * retryDelay
            /\ (cd35Returned # << >> /\ tryOutcome = "ok")
                  => cd35Returned = << ParsedMembers(members) >>
            /\ (cd35Returned # << >> /\ tryOutcome = "error")
                  => (attempt = maxRetries /\ cd35Returned = << << >> >>) )
    /\ [][ /\ attempt' # attempt =>
                /\ attempt' = attempt + 1
                /\ cd35Returned = << >>
                /\ ~retryWait
                /\ tryOutcome # "ok"
           /\ (attempt' # attempt /\ tryOutcome' = "error" /\ attempt' < maxRetries)
                 => (retryWait' /\ cd35Returned' = << >>)
           /\ (retryWait /\ ~retryWait') =>
                 (elapsed' = elapsed + retryDelay /\ attempt' = attempt)
         ]_vars
    /\ <>(cd35Returned # << >>)

\* the third attempt has succeeded after two failures and two delays and
\* has returned the one member of its answer that has a position
C27_Witness ==
    /\ attempt = 3
    /\ tryOutcome = "ok"
    /\ Len(members) = 2
    /\ cd35Returned = << ParsedMembers(members) >>
    /\ Len(cd35Returned[1]) = 1
    /\ elapsed = 2 * fetchTimeout + 2 * retryDelay + 1

\* ------------------------------------------------------------------------
\* Successive runs of the revision with monitorFetch in which the fetch of
\* a source of CanThrow may reject, so that monitorFetch takes its catch
\* branch in a run that follows a run with a published summary.
\* ------------------------------------------------------------------------
StartMonitorRun == StartRunUpTo(MaxMonitorRuns)

FetchThrows ==
    \E k \in 1..Len(SourceOrder) :
       /\ \A j \in 1..(k - 1) : Settled(j)
       /\ FetchSettles(SourceOrder[k], "thrown", << >>)

NextMonitor ==
    \/ StartMonitorRun
    \/ FetchInOrder
    \/ FetchThrows
    \/ Convert
    \/ ArchiveFeature
    \/ SkipDetection
    \/ WriteGeojson
    \/ WriteMetadata

SpecMonitor == InitLive /\ [][NextMonitor]_vars

\* C28: once the fetches of a run are over and until the run writes its own
\* metadata.json, every source whose fetch raised an error has, in its
\* status record, the lastSuccess that the summary written by the previous
\* run (metadata.flux_monitoring.sources) has for it, when the previous run
\* wrote one.
C28_LastSuccessRecovered ==
    ( /\ pc \in {"converting", "archiving", "emitting", "metadata"}
      /\ runs >= 2
      /\ metadata # NoFile
      /\ metadata.run = runs - 1 )
    => \A src \in Sources :
          fluxMonitor[src].status = "ERROR" =>
             fluxMonitor[src].lastSuccess =
                metadata.flux_monitoring.sources[src].lastSuccess

\* C29: in every state of the archive, each entry of the partition of year
\* y has a date_debut in the display format whose year is y.
C29_PartitionHoldsItsYear ==
    \A year \in DOMAIN archive :
       \A i \in 1..Len(archive[year]) :
          /\ archive[year][i].date_debut.k = "fr"
          /\ archive[year][i].date_debut.y = year

\* two partitions on disk, of the year before the first run and of the
\* year of the first run, each with an entry
C29_Witness ==
    /\ BaseYear - 1 \in DOMAIN archive
    /\ BaseYear \in DOMAIN archive
    /\ archive[BaseYear - 1] # << >>
    /\ archive[BaseYear] # << >>

\* C30: a detection step creates no partition and changes none but those
\* of the year of the run and of the year before; the entries it changes
\* belong to pairs that vanished, become 'Supprimé', and are at most one
\* for each time the pair is listed in the previous snapshot; and when the
\* entry found for a vanished pair in the partition of the current year
\* can be marked, no entry of that pair changes in the partition of the
\* year before.
Touched ==
    { place \in UNION {{<<year, i>> : i \in 1..Len(archive[year])} : year \in DOMAIN archive} :
         loadArchive(archive', place[1])[place[2]] # archive[place[1]][place[2]] }

Listed(pair) ==
    Cardinality({ j \in 1..Len(lastRun.actifs[pair[1]]) :
                     lastRun.actifs[pair[1]][j] = pair[2] })

KeyOf(place) ==
    <<archive[place[1]][place[2]].source, archive[place[1]][place[2]].id_source>>

MaxOverlapFeatures == 2

\* the features a run can hand to addOrUpdateInArchive and that reach
\* loadArchive
OverlapFeatures ==
    { f \in Reports(now) : ArchiveTarget(f, revision) # Null }

\* const archive = loadArchive(year)
OverlapLoad(p) ==
    /\ held[p] = << >>
    /\ Len(upserted[p]) < MaxOverlapFeatures
    /\ \E feature \in OverlapFeatures :
          held' = [held EXCEPT ![p] =
                     << feature,
                        loadArchive(archive, getYearFromDateDebut(feature.date_debut)) >>]
    /\ UNCHANGED <<runVars, probe, verdict, tryVars, upserted>>

\* an upsert with the partition read again under a lock held until the write
OverlapWriteLocked(a, year, feats, feature, rev) ==
    addOrUpdateInArchive(a, feature, rev)

\* what saveArchive(year, archive) leaves on disk: the file of the year is
\* replaced by the object the process read earlier, as the upsert changed it
OverlapWrite(a, year, feats, feature, rev) ==
    addOrUpdateInArchive(saveArchive(a, year, feats), feature, rev)

\* findInArchive, the change of the object, saveArchive(year, archive)
OverlapSave(p) ==
    /\ held[p] # << >>
    /\ LET feature == held[p][1]
           year == getYearFromDateDebut(feature.date_debut)
       IN /\ archive' = OverlapWrite(archive, year, held[p][2], feature, revision)
          /\ upserted' = [upserted EXCEPT ![p] = Append(@, feature)]
    /\ held' = [held EXCEPT ![p] = << >>]
    /\ UNCHANGED <<revision, runs, now, pc, outcome, fetched, fluxMonitor,
                   uniqueIdCounter, normalized, features, stats, ai, lastRun,
                   geojson, metadata, writes, probe, verdict, tryVars>>

NextOverlap ==
    \E p \in Procs : OverlapLoad(p) \/ OverlapSave(p)

SpecOverlap == Init /\ [][NextOverlap]_vars

\* the entry of the archive that stands for a feature a run has saved
Stored(feature) ==
    { i \in 1..Len(loadArchive(archive, getYearFromDateDebut(feature.date_debut))) :
        LET entry == loadArchive(archive, getYearFromDateDebut(feature.date_debut))[i]
        IN SameKey(entry, feature) /\ entry.date_debut = feature.date_debut }

\* C31: nothing locks the archive files. When a run writes a partition,
\* the file becomes the copy that run read (with its own feature appended
\* or updated in place), whatever the other run wrote in between: the
\* saved partition has the entries of the copy read, in their places, and
\* at most one more, the feature of the writing run; the other partitions
\* are left as they are.
C31_LastWriteWins ==
    [][ \A p \in Procs :
          (held[p] # << >> /\ held'[p] = << >>)
          => LET feature == held[p][1]
                 stale == held[p][2]
                 year == getYearFromDateDebut(feature.date_debut)
                 saved == loadArchive(archive', year)
             IN /\ Len(saved) \in {Len(stale), Len(stale) + 1}
                /\ \A i \in 1..Len(stale) :
                      /\ SameKey(saved[i], stale[i])
                      /\ saved[i].date_debut = stale[i].date_debut
                /\ Len(saved) = Len(stale) + 1
                      => /\ SameKey(saved[Len(saved)], feature)
                         /\ saved[Len(saved)].date_debut = feature.date_debut
                /\ \A other \in DOMAIN archive \ {year} :
                      loadArchive(archive', other) = archive[other]
      ]_vars

\* both runs are between two upserts, and a feature one of them saved has
\* no entry left in its partition
C31_Witness ==
    /\ \A p \in Procs : held[p] = << >>
    /\ \E p \in Procs : \E i \in 1..Len(upserted[p]) :
          Stored(upserted[p][i]) = {}

\* C33: in every state, no partition of the archive holds two entries with
\* the same source, the same non-null id_source and the same date_debut.
C33_OneEntryPerEvent ==
    \A year \in DOMAIN archive :
       \A i, j \in 1..Len(archive[year]) :
          ( /\ i < j
            /\ archive[year][i].id_source # Null
            /\ SameKey(archive[year][i], archive[year][j]) )
          => archive[year][i].date_debut # archive[year][j].date_debut

\* C34: at the step that ends the archival of a run, a published feature
\* that is resolved with a date_fin and whose (source, id_source) was
\* active in the previous run leaves every archive entry of its (source,
\* id_source, date_debut) with statut "Resolu" and without
\* date_suppression.
C34_ResolvedIsNotDeleted ==
    [][ ( /\ pc = "archiving"
          /\ ai > Len(features) )
        => \A i \in 1..Len(features) :
              LET f == features[i]
                  year == ArchiveTarget(f, revision)
              IN ( /\ f.statut_resolu
                   /\ f.date_fin.k # "none"
                   /\ f.id_source # Null
                   /\ year # Null
                   /\ InSeq(f.id_source, lastRun.actifs[f.source]) )
                 => \A j \in 1..Len(loadArchive(archive', year)) :
                       LET entry == loadArchive(archive', year)[j] IN
                       ( SameKey(entry, f) /\ entry.date_debut = f.date_debut )
                       => /\ entry.statut = "Resolu"
                          /\ entry.date_suppression.k = "none"
      ]_vars

\* C35: at the step that ends the archival of a run, the archive entries
\* of a source from which the run received no record (its fetch failed or
\* its answer was empty) are left as they are.
C35_SilentSourceIsLeftAlone ==
    [][ ( /\ pc = "archiving"
          /\ ai > Len(features) )
        => \A src \in Sources :
              fetched[src] = << >>
              => \A year \in DOMAIN archive :
                    \A i \in 1..Len(archive[year]) :
                       archive[year][i].source = src
                       => loadArchive(archive', year)[i] = archive[year][i]
      ]_vars

\* C36: no step changes or clears the date_suppression of an archive entry
\* that has one; the entry stays at its place in its partition.
C36_DeletionDateIsFinal ==
    [][ \A year \in DOMAIN archive :
           \A i \in 1..Len(archive[year]) :
              archive[year][i].date_suppression.k # "none"
              => /\ Len(loadArchive(archive', year)) >= i
                 /\ loadArchive(archive', year)[i].date_suppression
                       = archive[year][i].date_suppression
      ]_vars

\* C36 witness: a run has archived its features and has run its detection;
\* one of its features was upserted onto an entry of its (source,
\* id_source, date_debut) that an earlier run had marked, and the entry
\* still has the date_suppression of that earlier run
C36_Witness ==
    /\ pc = "emitting"
    /\ \E year \in DOMAIN archive :
          \E i \in 1..Len(archive[year]) :
             LET entry == archive[year][i] IN
             /\ entry.date_suppression.k = "fr"
             /\ Instant(entry.date_suppression.y, entry.date_suppression.m, 0)
                   < Instant(now.y, now.m, 0)
             /\ findInArchive(archive[year], entry.id_source, entry.source) = i
             /\ \E j \in 1..Len(features) :
                   /\ SameKey(entry, features[j])
                   /\ features[j].date_debut = entry.date_debut
                   /\ ArchiveTarget(features[j], revision) = year

\* C37: no step gives the statut "Actif" back to an archive entry whose
\* statut is "Resolu" or "Supprime", and no step sets statut_actif of an
\* entry from false to true.
C37_NoWayBackToActive ==
    [][ \A year \in DOMAIN archive :
           \A i \in 1..Len(archive[year]) :
              LET entry == archive[year][i]
                  after == loadArchive(archive', year)[i]
              IN /\ Len(loadArchive(archive', year)) >= i
                 /\ entry.statut \in {"Resolu", "Supprime"} => after.statut # "Actif"
                 /\ ~entry.statut_actif => ~after.statut_actif
      ]_vars

\* C37 witness: a run has archived its features, one of them active, and
\* the entry its upsert matched, of the same date_debut, is still
\* "Resolu" or "Supprime" from an earlier run
C37_Witness ==
    /\ pc = "emitting"
    /\ \E year \in DOMAIN archive :
          \E i \in 1..Len(archive[year]) :
             LET entry == archive[year][i] IN
             /\ entry.statut \in {"Resolu", "Supprime"}
             /\ findInArchive(archive[year], entry.id_source, entry.source) = i
             /\ \E j \in 1..Len(features) :
                   /\ SameKey(entry, features[j])
                   /\ features[j].date_debut = entry.date_debut
                   /\ features[j].statut_actif
                   /\ ArchiveTarget(features[j], revision) = year

\* the features the converters make of the records received, source after
\* source in the order of the conversion loops, before they get their id
RECURSIVE Converted(_, _)
Converted(k, i) ==
    IF k > Len(SourceOrder) THEN << >>
    ELSE IF i > Len(fetched[SourceOrder[k]]) THEN Converted(k + 1, 1)
    ELSE ToFeature(SourceOrder[k], fetched[SourceOrder[k]][i], 0) \o Converted(k, i + 1)

Kept(f) == shouldKeepFeature(f, now).keep

\* C38: a fetch that settles writes the result list and the status record
\* of its own source only and draws no id; once all have settled, the
\* features of the run are those of the result lists taken in the fixed
\* order of the sources, numbered 1, 2, ... in that order, the published
\* ones are those the filter keeps, in the same order, and that is what
\* signalements.geojson of the run holds. So the output of a run is the
\* same in whatever order its fetches settled.
C38_SettlingOrderIsInvisible ==
    /\ [] ( pc \in {"archiving", "emitting", "metadata", "done"}
            => /\ normalized = [i \in 1..Len(Converted(1, 1)) |->
                                   [Converted(1, 1)[i] EXCEPT !.id = i]]
               /\ features = SelectSeq(normalized, Kept)
               /\ (geojson # NoFile /\ geojson.run = runs) => geojson.features = features )
    /\ [][ pc = "fetching"
           => /\ uniqueIdCounter' = uniqueIdCounter
              /\ normalized' = normalized
              /\ \A src \in Sources :
                    (fetched'[src] # fetched[src] \/ fluxMonitor'[src] # fluxMonitor[src])
                    => (outcome[src] = "pending" /\ outcome'[src] # "pending")
         ]_vars

\* C38 witness: the fetch started last among the concurrent ones has
\* settled with records while the one started first is still pending
C38_Witness ==
    /\ pc = "fetching"
    /\ outcome[CD56] = "ok"
    /\ fetched[CD56] # << >>
    /\ outcome[Grist] = "pending"
    /\ outcome[CD44] = "ok"
    /\ fluxMonitor[CD44] # fluxMonitor[CD56]

\* C39: when a run is done, every published feature whose date_debut gives
\* a year has an entry of its (source, id_source, date_debut) in the
\* partition of that year.
C39_PublishedIsArchived ==
    pc = "done" =>
       \A i \in 1..Len(features) :
          LET f == features[i]
              year == getYearFromDateDebut(f.date_debut)
          IN year # Null =>
                \E j \in 1..Len(loadArchive(archive, year)) :
                   LET entry == loadArchive(archive, year)[j] IN
                   SameKey(entry, f) /\ entry.date_debut = f.date_debut

====
